---- MODULE Spec2Model ----
(***************************************************************************)
(* gns3fy services layer (src/gns3fy/services.py): the search / create /   *)
(* delete functions of projects, templates, nodes, links, snapshots and    *)
(* drawings, and refresh_project, run by one sequential client against a   *)
(* GNS3 server that other clients may change between two calls.            *)
(*                                                                         *)
(* A service function is an operator from the context in which it is       *)
(* called to the context in which it ends, written as its code is; a call  *)
(* is one action, which leaves the server and the Project object as the    *)
(* function left them.  A property of a function is stated of every call   *)
(* that can be made in a reachable state.  The context record c:           *)
(*   c.srv      the server's listings, one sequence per kind               *)
(*   c.project  the local Project object's four collections                *)
(*   c.nextId   the next identifier the server assigns                     *)
(*   c.fuel     how many more http calls succeed before one raises         *)
(*   c.err      "" or the error that is propagating to the caller          *)
(*   c.detail   the identifier the error message names (NoId when none)    *)
(*   c.ret      the value returned: <<>> is None, <<x>> is the object x    *)
(*   c.calls    the mutating requests (POST / DELETE) issued so far        *)
(*   c.seen     <<>>, or the link set and endpoints _search_link was given *)
(*   c.gets     the kinds of the list requests issued so far               *)
(***************************************************************************)
EXTENDS Integers, Sequences, FiniteSets, TLC

VARIABLES srv, project, nextId

vars == <<srv, project, nextId>>

(* ------------------------------ bounds --------------------------------- *)
\* identifiers 1..FirstId-1 exist at start; the server assigns FirstId..MaxId
MaxId == 5
\* the largest number of http calls after which a failure is still injected
MaxHttp == 15

\* the identifiers of the entities the server holds at start
InitialIds == {1, 2, 3, 4}
FirstId == Cardinality(InitialIds) + 1
NoFail == MaxHttp + 1
\* the failure points of a function that makes n http calls: its last call
\* (the POST or DELETE of a create or delete) raises, or none does; a list
\* request that raises inside refresh_project is a failure point of the
\* action RefreshProject
FuelFor(n) == {n - 1, NoFail}

None == "None"
NoId == 0

NodeNames == {"R1", "R2", "R3"}
ProjectNames == {"lab0", "lab1"}
TemplateNames == {"T1", "T2"}
SnapshotNames == {"snap1", "snap2"}
DrawingSvgs == {"svg1", "svg2"}
Ids == 1..MaxId
\* hash seeds of the interpreter: the iteration order of a set depends on it
\* (with these two a set is iterated by ascending or by descending identifier)
Seeds == {1, 6}

\* the ports every node reports after node.get()
NodePorts ==
    << [name |-> "Eth0", adapter_number |-> 0, port_number |-> 0],
       [name |-> "Eth1", adapter_number |-> 0, port_number |-> 1] >>

(* ----------------------- sets, lists, iteration ------------------------ *)
Range(s) == {s[i] : i \in DOMAIN s}

\* set(list): entities are equal when their identifiers are equal, the first
\* of two equal ones stays
ToSet(s) == {s[i] : i \in {j \in DOMAIN s : \A k \in 1..(j - 1) : s[k].id # s[j].id}}

\* S.add(x): nothing happens when an equal element is already a member
SetAdd(S, x) == IF \E y \in S : y.id = x.id THEN S ELSE S \cup {x}

\* S.remove(x): removes the member equal to x
SetRemove(S, x) == {y \in S : y.id # x.id}

\* position of an element in the iteration order of a set
HashKey(id, seed) == (id * seed) % 7

\* next(x for x in S if P(x)) over a set
FirstOfSet(S, P(_), seed) ==
    LET M == {x \in S : P(x)}
    IN  IF M = {} THEN <<>>
        ELSE <<CHOOSE x \in M : \A y \in M : HashKey(x.id, seed) <= HashKey(y.id, seed)>>

\* next(x for x in list if P(x)) over a list
FirstOfList(s, P(_)) ==
    LET I == {i \in DOMAIN s : P(s[i])}
    IN  IF I = {} THEN <<>>
        ELSE <<s[CHOOSE i \in I : \A j \in I : i <= j]>>

\* list(S): the members of a set in its iteration order
Ordered(S, seed) ==
    CHOOSE f \in [1..Cardinality(S) -> S] :
        \A i, j \in 1..Cardinality(S) :
            i < j => HashKey(f[i].id, seed) < HashKey(f[j].id, seed)

RemoveFromList(s, id) == SelectSeq(s, LAMBDA e : e.id # id)

(* ------------------------------ transport ------------------------------ *)
Raise(c, e) == [c EXCEPT !.err = e, !.ret = <<>>]

RaiseWith(c, e, id) == [c EXCEPT !.err = e, !.ret = <<>>, !.detail = id]

Return(c, r) == [c EXCEPT !.ret = r]

\* statement sequencing: an exception raised in c skips the rest
Then(c, Rest(_)) == IF c.err # "" THEN c ELSE Rest(c)

\* connector.http_call: returns, or raises when the transport fails
http_call(c) ==
    IF c.fuel = 0 THEN Raise(c, "TransportError")
    ELSE IF c.fuel = NoFail THEN c
    ELSE [c EXCEPT !.fuel = @ - 1]

\* get_<kind>(project) / get_projects / get_templates: one list request, the
\* value returned is the server's listing
get_list(c, kind) ==
    Then(http_call([c EXCEPT !.gets = Append(@, kind)]),
         LAMBDA c1 : Return(c1, c1.srv[kind]))

get_snapshots(c) == get_list(c, "snapshots")

get_drawings(c) == get_list(c, "drawings")

get_nodes(c) == get_list(c, "nodes")

get_links(c) == get_list(c, "links")

get_projects(c) == get_list(c, "projects")

get_templates(c) == get_list(c, "templates")

\* <entity>.create(): POST, the server stores the entity under a new identifier
\* and the local object takes that identifier
RemoteCreate(c, kind, e) ==
    Then(http_call([c EXCEPT !.calls = Append(@, <<"POST", kind>>)]),
         LAMBDA c1 : Return([c1 EXCEPT !.srv[kind] = Append(@, [e EXCEPT !.id = c1.nextId]),
                                       !.nextId = @ + 1],
                            <<[e EXCEPT !.id = c1.nextId]>>))

\* <entity>.delete(): DELETE, the server drops the entity
RemoteDelete(c, kind, e) ==
    Then(http_call([c EXCEPT !.calls = Append(@, <<"DELETE", kind>>)]),
         LAMBDA c1 : [c1 EXCEPT !.srv[kind] = RemoveFromList(@, e.id)])

(* --------------------------- refresh_project --------------------------- *)
\* a refresh that merges the listing into the collection
RefreshKind_Merge(c, selected, kind) ==
    IF ~selected THEN c
    ELSE Then(get_list(c, kind),
              LAMBDA c1 : Return([c1 EXCEPT !.project[kind] = @ \cup ToSet(c1.ret)], <<>>))

\* a refresh that keeps only the entities it did not hold yet
RefreshKind_OnlyNew(c, selected, kind) ==
    IF ~selected THEN c
    ELSE Then(get_list(c, kind),
              LAMBDA c1 : Return([c1 EXCEPT !.project[kind] =
                                      {e \in ToSet(c1.ret) : \A x \in @ : x.id # e.id}],
                                 <<>>))

\* if <kind>: project.<kind> = set(get_<kind>(project))
RefreshKind(c, selected, kind) ==
    IF ~selected THEN c
    ELSE Then(get_list(c, kind),
              LAMBDA c1 : Return([c1 EXCEPT !.project[kind] = ToSet(c1.ret)], <<>>))

\* a refresh that ignores its selectors
refresh_project_AllKinds(c, links, nodes, snapshots, drawings) ==
    Then(RefreshKind(c, TRUE, "snapshots"), LAMBDA c1 :
    Then(RefreshKind(c1, TRUE, "drawings"), LAMBDA c2 :
    Then(RefreshKind(c2, TRUE, "nodes"), LAMBDA c3 :
    RefreshKind(c3, TRUE, "links"))))

refresh_project(c, links, nodes, snapshots, drawings) ==
    Then(RefreshKind(c, snapshots, "snapshots"), LAMBDA c1 :
    Then(RefreshKind(c1, drawings, "drawings"), LAMBDA c2 :
    Then(RefreshKind(c2, nodes, "nodes"), LAMBDA c3 :
    RefreshKind(c3, links, "links"))))

(* ------------------------------ resolvers ------------------------------ *)
\* a search that returns the last match of the listing
SearchFetched_LastMatch(c, kind, name, id) ==
    IF name # None
    THEN Then(get_list(c, kind), LAMBDA c1 :
            LET I == {i \in DOMAIN c1.ret : c1.ret[i].name = name}
            IN  Return(c1, IF I = {} THEN <<>>
                           ELSE <<c1.ret[CHOOSE i \in I : \A j \in I : j <= i]>>))
    ELSE IF id # NoId
    THEN Then(get_list(c, kind),
              LAMBDA c1 : Return(c1, FirstOfList(c1.ret, LAMBDA e : e.id = id)))
    ELSE Raise(c, "InvalidArgument")

\* a search that answers None when it is given neither key
SearchFetched_NoneOnNoKey(c, kind, name, id) ==
    IF name # None
    THEN Then(get_list(c, kind),
              LAMBDA c1 : Return(c1, FirstOfList(c1.ret, LAMBDA e : e.name = name)))
    ELSE IF id # NoId
    THEN Then(get_list(c, kind),
              LAMBDA c1 : Return(c1, FirstOfList(c1.ret, LAMBDA e : e.id = id)))
    ELSE Return(c, <<>>)

\* the try / next(...) / except StopIteration body shared by search_project,
\* search_template, search_drawing and search_snapshot: each branch fetches
\* the listing and returns its first match
SearchFetched(c, kind, name, id) ==
    IF name # None
    THEN Then(get_list(c, kind),
              LAMBDA c1 : Return(c1, FirstOfList(c1.ret, LAMBDA e : e.name = name)))
    ELSE IF id # NoId
    THEN Then(get_list(c, kind),
              LAMBDA c1 : Return(c1, FirstOfList(c1.ret, LAMBDA e : e.id = id)))
    ELSE Raise(c, "InvalidArgument")

search_project(c, name, project_id) == SearchFetched(c, "projects", name, project_id)

search_template(c, name, template_id) == SearchFetched(c, "templates", name, template_id)

search_drawing(c, svg, drawing_id) ==
    Then(refresh_project(c, TRUE, TRUE, TRUE, TRUE),
         LAMBDA c1 : SearchFetched(c1, "drawings", svg, drawing_id))

\* search_snapshot refreshing the snapshots alone
search_snapshot_OwnKindOnly(c, name, snapshot_id) ==
    Then(refresh_project(c, FALSE, FALSE, TRUE, FALSE),
         LAMBDA c1 : SearchFetched(c1, "snapshots", name, snapshot_id))

search_snapshot(c, name, snapshot_id) ==
    Then(refresh_project(c, TRUE, TRUE, TRUE, TRUE),
         LAMBDA c1 : SearchFetched(c1, "snapshots", name, snapshot_id))

\* search_node without its refresh_project: the name is looked up in the
\* collection as the last refresh left it
search_node_Unrefreshed(c, name, node_id, seed) ==
    IF name # None
    THEN Return(c, FirstOfSet(c.project.nodes, LAMBDA n : n.name = name, seed))
    ELSE IF node_id # NoId
    THEN Then(get_nodes(c),
              LAMBDA c2 : Return(c2, FirstOfList(c2.ret, LAMBDA n : n.id = node_id)))
    ELSE Raise(c, "InvalidArgument")

search_node(c, name, node_id, seed) ==
    Then(refresh_project(c, TRUE, TRUE, TRUE, TRUE), LAMBDA c1 :
        IF name # None
        THEN Return(c1, FirstOfSet(c1.project.nodes, LAMBDA n : n.name = name, seed))
        ELSE IF node_id # NoId
        THEN Then(get_nodes(c1),
                  LAMBDA c2 : Return(c2, FirstOfList(c2.ret, LAMBDA n : n.id = node_id)))
        ELSE Raise(c1, "InvalidArgument"))

\* search_port: node.get() is one request, then the first port of that name
search_port(c, node, name) ==
    Then(http_call(c),
         LAMBDA c1 : Return(c1, FirstOfList(NodePorts, LAMBDA p : p.name = name)))

(* ------------------------- create and delete --------------------------- *)
\* a create function without its name guard
RaiseIfFound_Unchecked(c) == c

\* if found: raise ValueError("... with same name already exists")
RaiseIfFound(c) == IF c.ret # <<>> THEN Raise(c, "AlreadyExists") ELSE c

\* if found is None: raise ValueError("... not found")
RaiseIfNone(c) ==
    Then(c, LAMBDA c1 : IF c1.ret = <<>> THEN Raise(c1, "NotFound") ELSE c1)

\* a create function that forgets project.<kind>.add
AddCreated_Skipped(c, kind) == c

\* project.<kind>.add(created)
AddCreated(c, kind) == [c EXCEPT !.project[kind] = SetAdd(@, c.ret[1])]

\* a delete function that forgets project.<kind>.remove
RemoveFound_Kept(c, kind, found) == Return(c, <<>>)

\* project.<kind>.remove(found): KeyError when no member equals found
RemoveFound(c, kind, found) ==
    IF \E y \in c.project[kind] : y.id = found.id
    THEN Return([c EXCEPT !.project[kind] = SetRemove(@, found)], <<>>)
    ELSE Raise(c, "KeyError")

\* project.<kind>.remove(found) followed by found.delete()
DeleteAndRemove_RemoveFirst(c, kind, found) ==
    Then(RemoveFound(c, kind, found), LAMBDA c1 : RemoteDelete(c1, kind, found))

\* found.delete() followed by project.<kind>.remove(found)
DeleteAndRemove(c, kind, found) ==
    Then(RemoteDelete(c, kind, found), LAMBDA c1 : RemoveFound(c1, kind, found))

(* -------------------------------- nodes -------------------------------- *)
\* create_node without the search for a node of the same name
create_node_Unguarded(c, name, template_name, seed) ==
    Then(refresh_project(c, TRUE, TRUE, TRUE, TRUE), LAMBDA c1 :
    Then(search_template(c1, template_name, NoId), LAMBDA c2 :
    Then(RaiseIfNone(c2), LAMBDA c3 :
    Then(RemoteCreate(c3, "nodes", [id |-> NoId, name |-> name]), LAMBDA c4 :
    AddCreated(c4, "nodes")))))

create_node(c, name, template_name, seed) ==
    Then(RaiseIfFound(search_node(c, name, NoId, seed)), LAMBDA c1 :
    Then(search_template(c1, template_name, NoId), LAMBDA c2 :
    Then(RaiseIfNone(c2), LAMBDA c3 :
    Then(RemoteCreate(c3, "nodes", [id |-> NoId, name |-> name]), LAMBDA c4 :
    AddCreated(c4, "nodes")))))

delete_node(c, name, node_id, seed) ==
    Then(RaiseIfNone(search_node(c, name, node_id, seed)),
         LAMBDA c1 : DeleteAndRemove(c1, "nodes", c1.ret[1]))

(* ------------------------- projects, templates ------------------------- *)
create_project(c, name) ==
    Then(RaiseIfFound(search_project(c, name, NoId)),
         LAMBDA c1 : RemoteCreate(c1, "projects", [id |-> NoId, name |-> name]))

\* delete_project tolerating absence as delete_link does
delete_project_Silent(c, name, project_id) ==
    Then(search_project(c, name, project_id), LAMBDA c1 :
        IF c1.ret = <<>> THEN c1
        ELSE Then(RemoteDelete(c1, "projects", c1.ret[1]), LAMBDA c2 : Return(c2, <<>>)))

delete_project(c, name, project_id) ==
    Then(RaiseIfNone(search_project(c, name, project_id)), LAMBDA c1 :
    Then(RemoteDelete(c1, "projects", c1.ret[1]), LAMBDA c2 : Return(c2, <<>>)))

create_template(c, name) ==
    Then(RaiseIfFound(search_template(c, name, NoId)),
         LAMBDA c1 : RemoteCreate(c1, "templates", [id |-> NoId, name |-> name]))

delete_template(c, name, template_id) ==
    Then(RaiseIfNone(search_template(c, name, template_id)), LAMBDA c1 :
    Then(RemoteDelete(c1, "templates", c1.ret[1]), LAMBDA c2 : Return(c2, <<>>)))

(* ------------------------- drawings, snapshots ------------------------- *)
\* a drawing's name field holds its svg string
\* create_drawing adding the drawing to the project before creating it
create_drawing_AddFirst(c, svg) ==
    Then(RaiseIfFound(search_drawing(c, svg, NoId)), LAMBDA c1 :
    Then(RemoteCreate([c1 EXCEPT !.project.drawings = SetAdd(@, [id |-> NoId, name |-> svg])],
                      "drawings", [id |-> NoId, name |-> svg]), LAMBDA c2 :
    Return([c2 EXCEPT !.project.drawings =
                SetAdd(SetRemove(@, [id |-> NoId, name |-> svg]), c2.ret[1])],
           c2.ret)))

create_drawing(c, svg) ==
    Then(RaiseIfFound(search_drawing(c, svg, NoId)), LAMBDA c1 :
    Then(RemoteCreate(c1, "drawings", [id |-> NoId, name |-> svg]), LAMBDA c2 :
    AddCreated(c2, "drawings")))

delete_drawing(c, svg, drawing_id) ==
    Then(RaiseIfNone(search_drawing(c, svg, drawing_id)),
         LAMBDA c1 : DeleteAndRemove(c1, "drawings", c1.ret[1]))

create_snapshot(c, name) ==
    Then(RaiseIfFound(search_snapshot(c, name, NoId)), LAMBDA c1 :
    Then(RemoteCreate(c1, "snapshots", [id |-> NoId, name |-> name]), LAMBDA c2 :
    AddCreated(c2, "snapshots")))

delete_snapshot(c, name, snapshot_id) ==
    Then(RaiseIfNone(search_snapshot(c, name, snapshot_id)),
         LAMBDA c1 : DeleteAndRemove(c1, "snapshots", c1.ret[1]))

(* -------------------------------- links -------------------------------- *)
\* the endpoint a link stores for a node's port (the dict create_link builds)
Endpoint(node, port) ==
    [node_id |-> node.id, adapter_number |-> port.adapter_number,
     port_number |-> port.port_number, name |-> port.name]

_link_nodes_and_ports(c, node_a, port_a, node_b, port_b, seed) ==
    Then(RaiseIfNone(search_node(c, node_a, NoId, seed)), LAMBDA c1 :
    Then(RaiseIfNone(search_port(c1, c1.ret[1], port_a)), LAMBDA c2 :
    Then(RaiseIfNone(search_node(c2, node_b, NoId, seed)), LAMBDA c3 :
    Then(RaiseIfNone(search_port(c3, c3.ret[1], port_b)), LAMBDA c4 :
    Return(c4, <<c1.ret[1], c2.ret[1], c3.ret[1], c4.ret[1]>>)))))

\* _search_link without its elif branch
LinkMatches_ForwardOnly(l, node_a, port_a, node_b, port_b) ==
    /\ l.nodes # <<>>
    /\ l.nodes[1].node_id = node_a.id
    /\ l.nodes[1].adapter_number = port_a.adapter_number
    /\ l.nodes[1].port_number = port_a.port_number
    /\ l.nodes[2].node_id = node_b.id
    /\ l.nodes[2].adapter_number = port_b.adapter_number
    /\ l.nodes[2].port_number = port_b.port_number

\* the test of the loop body of _search_link: does link l go to _matches
LinkMatches(l, node_a, port_a, node_b, port_b) ==
    IF l.nodes = <<>> THEN FALSE
    ELSE IF /\ l.nodes[1].node_id = node_a.id
            /\ l.nodes[1].adapter_number = port_a.adapter_number
            /\ l.nodes[1].port_number = port_a.port_number
            /\ l.nodes[2].node_id = node_b.id
            /\ l.nodes[2].adapter_number = port_b.adapter_number
            /\ l.nodes[2].port_number = port_b.port_number
    THEN TRUE
    ELSE IF /\ l.nodes[2].node_id = node_a.id
            /\ l.nodes[2].adapter_number = port_a.adapter_number
            /\ l.nodes[2].port_number = port_a.port_number
            /\ l.nodes[1].node_id = node_b.id
            /\ l.nodes[1].adapter_number = port_b.adapter_number
            /\ l.nodes[1].port_number = port_b.port_number
    THEN TRUE
    ELSE FALSE

\* _search_link comparing the port's name with the endpoint's label as well
_search_link_ByName(links, node_a, port_a, node_b, port_b, seed) ==
    FirstOfSet(links,
               LAMBDA l : /\ LinkMatches(l, node_a, port_a, node_b, port_b)
                          /\ {l.nodes[1].name, l.nodes[2].name} = {port_a.name, port_b.name},
               seed)

\* _search_link: _matches[0] in the iteration order of project.links, or None
_search_link(links, node_a, port_a, node_b, port_b, seed) ==
    FirstOfSet(links, LAMBDA l : LinkMatches(l, node_a, port_a, node_b, port_b), seed)

\* the call _search_link(project, *t) of search_link and create_link; c.seen
\* notes the link set and the endpoints of the call
CallSearchLink(c, t, seed) ==
    Return([c EXCEPT !.seen = <<[links |-> c.project.links, ends |-> t]>>],
           _search_link(c.project.links, t[1], t[2], t[3], t[4], seed))

search_link(c, node_a, port_a, node_b, port_b, seed) ==
    Then(refresh_project(c, TRUE, TRUE, TRUE, TRUE), LAMBDA c1 :
    Then(_link_nodes_and_ports(c1, node_a, port_a, node_b, port_b, seed), LAMBDA c2 :
    CallSearchLink(c2, c2.ret, seed)))

\* create_link without its pre-create check
RaiseIfConnected_Unchecked(c) == c

\* if _slink: raise ValueError("At least one port is used, ID: ...")
RaiseIfConnected(c) ==
    IF c.ret # <<>> THEN RaiseWith(c, "AlreadyConnected", c.ret[1].id) ELSE c

\* Link(nodes=[dict(...), dict(...)]) of the endpoints _search_link was given
NewLink(c) ==
    [id |-> NoId,
     nodes |-> <<Endpoint(c.seen[1].ends[1], c.seen[1].ends[2]),
                 Endpoint(c.seen[1].ends[3], c.seen[1].ends[4])>>]

create_link(c, node_a, port_a, node_b, port_b, seed) ==
    Then(refresh_project(c, TRUE, TRUE, TRUE, TRUE), LAMBDA c1 :
    Then(_link_nodes_and_ports(c1, node_a, port_a, node_b, port_b, seed), LAMBDA c2 :
    Then(RaiseIfConnected(CallSearchLink(c2, c2.ret, seed)), LAMBDA c3 :
    Then(RemoteCreate(c3, "links", NewLink(c3)), LAMBDA c4 :
    AddCreated(c4, "links")))))

\* delete_link requiring the link to exist as the other delete functions do
delete_link_Strict(c, node_a, port_a, node_b, port_b, seed) ==
    Then(RaiseIfNone(search_link(c, node_a, port_a, node_b, port_b, seed)),
         LAMBDA c1 : DeleteAndRemove(c1, "links", c1.ret[1]))

delete_link(c, node_a, port_a, node_b, port_b, seed) ==
    Then(search_link(c, node_a, port_a, node_b, port_b, seed), LAMBDA c1 :
        IF c1.ret = <<>> THEN c1
        ELSE DeleteAndRemove(c1, "links", c1.ret[1]))

(* ------------------------------ summaries ------------------------------ *)
\* refresh_project(project, nodes=True): the other selectors keep their
\* default, True
nodes_summary(c, seed) ==
    Then(refresh_project(c, TRUE, TRUE, TRUE, TRUE), LAMBDA c1 :
        LET ns == Ordered(c1.project.nodes, seed)
        IN  Return(c1, <<[i \in DOMAIN ns |-> <<ns[i].name, ns[i].id>>]>>))

\* the dictionary is keyed by node name: one entry per name
get_nodes_inventory(c) ==
    Then(refresh_project(c, TRUE, TRUE, TRUE, TRUE), LAMBDA c1 :
        Return(c1, <<[nm \in {n.name : n \in c1.project.nodes} |-> [name |-> nm]]>>))

\* [x for x in project.nodes if x.node_id == side.node_id][0] and the name of
\* the port with the side's adapter and port numbers: <<>> stands for the
\* IndexError of [0] on an empty list
SideOf(nodes, side) ==
    LET ns == {x \in nodes : x.id = side.node_id}
        ps == FirstOfList(NodePorts, LAMBDA x : /\ x.port_number = side.port_number
                                                /\ x.adapter_number = side.adapter_number)
    IN  IF ns = {} \/ ps = <<>> THEN <<>>
        ELSE <<(CHOOSE x \in ns : TRUE).name, ps[1].name>>

links_summary(c, seed) ==
    Then(refresh_project(c, TRUE, TRUE, TRUE, TRUE), LAMBDA c1 :
        LET ls == Ordered({l \in c1.project.links : l.nodes # <<>>}, seed)
            side(i, k) == SideOf(c1.project.nodes, ls[i].nodes[k])
        IN  IF \E i \in DOMAIN ls : side(i, 1) = <<>> \/ side(i, 2) = <<>>
            THEN Raise(c1, "IndexError")
            ELSE Return(c1, <<[i \in DOMAIN ls |-> side(i, 1) \o side(i, 2)]>>))

(* ------------------------------- the state ----------------------------- *)
\* the project the client works in; it is never the project deleted
ProjectId == 1

Init ==
    /\ srv = [projects  |-> <<[id |-> 1, name |-> "lab0"]>>,
              templates |-> <<[id |-> 2, name |-> "T1"]>>,
              nodes     |-> <<[id |-> 3, name |-> "R1"], [id |-> 4, name |-> "R2"]>>,
              links     |-> <<>>,
              snapshots |-> <<>>,
              drawings  |-> <<>>]
    /\ project = [nodes |-> {}, links |-> {}, snapshots |-> {}, drawings |-> {}]
    /\ nextId = FirstId

Ctx(fuel) ==
    [srv |-> srv, project |-> project, nextId |-> nextId, fuel |-> fuel,
     err |-> "", detail |-> NoId, ret |-> <<>>, calls |-> <<>>, seen |-> <<>>,
     gets |-> <<>>]

\* a call ended in context c: the server and the Project object are as the
\* call left them (the server assigns identifiers up to MaxId)
Done(c) ==
    /\ c.nextId = nextId \/ c.nextId <= MaxId + 1
    /\ srv' = c.srv
    /\ project' = c.project
    /\ nextId' = c.nextId

\* the (name, identifier) arguments of a search or delete call
KeyArgs(names) ==
    (names \X {NoId, FirstId}) \cup ({None} \X (Ids \cup {NoId}))

\* the (node, port, node, port) names of a link call: the ports of R1 and R2
\* in both orders, two ports of one node, a port no node has, and a node that
\* may not exist
LinkArgs ==
    ({"R1"} \X {"Eth0", "Eth1"} \X {"R2"} \X {"Eth0", "Eth1"})
    \cup ({"R2"} \X {"Eth0", "Eth1"} \X {"R1"} \X {"Eth0", "Eth1"})
    \cup {<<"R1", "Eth0", "R1", "Eth1">>,
          <<"R1", "Eth9", "R2", "Eth0">>, <<"R1", "Eth0", "R2", "Eth9">>,
          <<"R3", "Eth0", "R1", "Eth0">>, <<"R1", "Eth0", "R3", "Eth0">>}

(* ------------------------------- actions ------------------------------- *)
RefreshProject ==
    \E l, n, s, d \in BOOLEAN, fuel \in (0..3) \cup {NoFail} :
        /\ Done(refresh_project(Ctx(fuel), l, n, s, d))

SearchProject ==
    \E k \in KeyArgs(ProjectNames), fuel \in FuelFor(1) :
        /\ Done(search_project(Ctx(fuel), k[1], k[2]))

CreateProject ==
    \E name \in ProjectNames, fuel \in FuelFor(2) :
        /\ Done(create_project(Ctx(fuel), name))

DeleteProject ==
    \E k \in KeyArgs(ProjectNames \ {"lab0"}), fuel \in FuelFor(2) :
        /\ k[2] # ProjectId
        /\ Done(delete_project(Ctx(fuel), k[1], k[2]))

SearchTemplate ==
    \E k \in KeyArgs(TemplateNames), fuel \in FuelFor(1) :
        /\ Done(search_template(Ctx(fuel), k[1], k[2]))

CreateTemplate ==
    \E name \in TemplateNames, fuel \in FuelFor(2) :
        /\ Done(create_template(Ctx(fuel), name))

DeleteTemplate ==
    \E k \in KeyArgs(TemplateNames), fuel \in FuelFor(2) :
        /\ Done(delete_template(Ctx(fuel), k[1], k[2]))

SearchDrawing ==
    \E k \in KeyArgs(DrawingSvgs), fuel \in FuelFor(5) :
        /\ Done(search_drawing(Ctx(fuel), k[1], k[2]))

CreateDrawing ==
    \E svg \in DrawingSvgs, fuel \in FuelFor(6) :
        /\ Done(create_drawing(Ctx(fuel), svg))

DeleteDrawing ==
    \E k \in KeyArgs(DrawingSvgs), fuel \in FuelFor(6) :
        /\ Done(delete_drawing(Ctx(fuel), k[1], k[2]))

SearchSnapshot ==
    \E k \in KeyArgs(SnapshotNames), fuel \in FuelFor(5) :
        /\ Done(search_snapshot(Ctx(fuel), k[1], k[2]))

CreateSnapshot ==
    \E name \in SnapshotNames, fuel \in FuelFor(6) :
        /\ Done(create_snapshot(Ctx(fuel), name))

DeleteSnapshot ==
    \E k \in KeyArgs(SnapshotNames), fuel \in FuelFor(6) :
        /\ Done(delete_snapshot(Ctx(fuel), k[1], k[2]))

SearchNode ==
    \E k \in KeyArgs(NodeNames), seed \in Seeds, fuel \in FuelFor(5) :
        /\ Done(search_node(Ctx(fuel), k[1], k[2], seed))

CreateNode ==
    \E name \in NodeNames, tpl \in TemplateNames, seed \in Seeds, fuel \in FuelFor(6) :
        /\ Done(create_node(Ctx(fuel), name, tpl, seed))

DeleteNode ==
    \E k \in KeyArgs(NodeNames), seed \in Seeds, fuel \in FuelFor(5) \cup FuelFor(6) :
        /\ Done(delete_node(Ctx(fuel), k[1], k[2], seed))

SearchLink ==
    \E <<na, pa, nb, pb>> \in LinkArgs, seed \in Seeds, fuel \in FuelFor(14) :
        /\ Done(search_link(Ctx(fuel), na, pa, nb, pb, seed))

CreateLink ==
    \E <<na, pa, nb, pb>> \in LinkArgs, seed \in Seeds, fuel \in FuelFor(15) :
        /\ Done(create_link(Ctx(fuel), na, pa, nb, pb, seed))

DeleteLink ==
    \E <<na, pa, nb, pb>> \in LinkArgs, seed \in Seeds, fuel \in FuelFor(15) :
        /\ Done(delete_link(Ctx(fuel), na, pa, nb, pb, seed))

NodesSummary ==
    \E seed \in Seeds, fuel \in FuelFor(4) :
        /\ Done(nodes_summary(Ctx(fuel), seed))

GetNodesInventory ==
    \E fuel \in FuelFor(4) :
        /\ Done(get_nodes_inventory(Ctx(fuel)))

LinksSummary ==
    \E seed \in Seeds, fuel \in FuelFor(4) :
        /\ Done(links_summary(Ctx(fuel), seed))

(* ---------------- other clients of the same server --------------------- *)
NamesOf(kind) ==
    CASE kind = "projects" -> ProjectNames
      [] kind = "templates" -> TemplateNames
      [] kind = "nodes" -> NodeNames
      [] kind = "snapshots" -> SnapshotNames
      [] kind = "drawings" -> DrawingSvgs

Kinds == {"projects", "templates", "nodes", "links", "snapshots", "drawings"}

\* an endpoint as another client labels it: the label is not the port's name
OtherEndpoints ==
    {[node_id |-> srv.nodes[i].id, adapter_number |-> NodePorts[j].adapter_number,
      port_number |-> NodePorts[j].port_number, name |-> "e"] :
        i \in DOMAIN srv.nodes, j \in DOMAIN NodePorts}

EnvDone(s) ==
    /\ srv' = s
    /\ UNCHANGED project

OtherCreates ==
    /\ nextId <= MaxId
    /\ nextId' = nextId + 1
    /\ \E kind \in Kinds \ {"links"} : \E name \in NamesOf(kind) :
        EnvDone([srv EXCEPT ![kind] = Append(@, [id |-> nextId, name |-> name])])

OtherLinks ==
    /\ nextId <= MaxId
    /\ nextId' = nextId + 1
    /\ \E nodes \in {<<>>} \cup (OtherEndpoints \X OtherEndpoints) :
        EnvDone([srv EXCEPT !.links = Append(@, [id |-> nextId, nodes |-> nodes])])

OtherDeletes ==
    /\ UNCHANGED nextId
    /\ \E kind \in Kinds : \E i \in DOMAIN srv[kind] :
        /\ srv[kind][i].id # ProjectId
        /\ EnvDone([srv EXCEPT ![kind] = RemoveFromList(@, srv[kind][i].id)])

Next ==
    \/ RefreshProject
    \/ SearchProject \/ CreateProject \/ DeleteProject
    \/ SearchTemplate \/ CreateTemplate \/ DeleteTemplate
    \/ SearchDrawing \/ CreateDrawing \/ DeleteDrawing
    \/ SearchSnapshot \/ CreateSnapshot \/ DeleteSnapshot
    \/ SearchNode \/ CreateNode \/ DeleteNode
    \/ SearchLink \/ CreateLink \/ DeleteLink
    \/ NodesSummary \/ GetNodesInventory \/ LinksSummary
    \/ OtherCreates \/ OtherLinks \/ OtherDeletes

Spec == Init /\ [][Next]_vars

(* ---------------- the link matcher over arbitrary link sets ------------ *)
\* the endpoints of the links other clients have made on the server: any
\* adapter and port of R1 and R2, labelled by them or with the port's name
MatchEnds ==
    {[node_id |-> n, adapter_number |-> ap[1], port_number |-> ap[2], name |-> "e"] :
        n \in {3, 4}, ap \in {<<0, 0>>, <<0, 1>>, <<1, 0>>}}
    \cup {[node_id |-> 3, adapter_number |-> 0, port_number |-> 0, name |-> "Eth0"]}

MatchNodes == {<<>>} \cup (MatchEnds \X MatchEnds)

MatchListings ==
    {<<>>}
    \cup {<<[id |-> 5, nodes |-> a]>> : a \in MatchNodes}
    \cup {<<[id |-> 5, nodes |-> a], [id |-> 6, nodes |-> b]>> : a \in MatchNodes, b \in MatchNodes}

InitMatch ==
    /\ \E ls \in MatchListings :
        srv = [projects  |-> <<[id |-> 1, name |-> "lab0"]>>,
               templates |-> <<[id |-> 2, name |-> "T1"]>>,
               nodes     |-> <<[id |-> 3, name |-> "R1"], [id |-> 4, name |-> "R2"]>>,
               links     |-> ls,
               snapshots |-> <<>>,
               drawings  |-> <<>>]
    /\ project = [nodes |-> {}, links |-> {}, snapshots |-> {}, drawings |-> {}]
    /\ nextId = 7

NextMatch == SearchLink

SpecMatch == InitMatch /\ [][NextMatch]_vars

(* ---------------- this client as the only writer ----------------------- *)
\* a server that holds the project and one template, and no node yet: every
\* node, link, snapshot and drawing is made by this client
InitSolo ==
    /\ srv = [projects  |-> <<[id |-> 1, name |-> "lab0"]>>,
              templates |-> <<[id |-> 2, name |-> "T1"]>>,
              nodes     |-> <<>>,
              links     |-> <<>>,
              snapshots |-> <<>>,
              drawings  |-> <<>>]
    /\ project = [nodes |-> {}, links |-> {}, snapshots |-> {}, drawings |-> {}]
    /\ nextId = Len(srv.projects) + Len(srv.templates) + 1

NextSolo ==
    \/ RefreshProject
    \/ SearchProject \/ CreateProject \/ DeleteProject
    \/ SearchTemplate \/ CreateTemplate \/ DeleteTemplate
    \/ SearchDrawing \/ CreateDrawing \/ DeleteDrawing
    \/ SearchSnapshot \/ CreateSnapshot \/ DeleteSnapshot
    \/ SearchNode \/ CreateNode \/ DeleteNode
    \/ SearchLink \/ CreateLink \/ DeleteLink
    \/ NodesSummary \/ GetNodesInventory \/ LinksSummary

SpecSolo == InitSolo /\ [][NextSolo]_vars

(* ======================= properties of the calls ======================= *)
\* the context of a new call made where the call that ended in c left off
After(c, fuel) ==
    [c EXCEPT !.fuel = fuel, !.err = "", !.detail = NoId, !.ret = <<>>,
              !.calls = <<>>, !.seen = <<>>, !.gets = <<>>]

LinkCalls == LinkArgs \X Seeds \X FuelFor(15)

CreateLinkCall(k) == create_link(Ctx(k[3]), k[1][1], k[1][2], k[1][3], k[1][4], k[2])

DeleteLinkCall(k) == delete_link(Ctx(k[3]), k[1][1], k[1][2], k[1][3], k[1][4], k[2])

SearchLinkCall(k) == search_link(Ctx(k[3]), k[1][1], k[1][2], k[1][3], k[1][4], k[2])

\* the (node, adapter, port) of a link's endpoint and of a resolved node and port
EndOf(e) == <<e.node_id, e.adapter_number, e.port_number>>

PortOf(node, port) == <<node.id, port.adapter_number, port.port_number>>

\* link l joins the two endpoints t = (node_a, port_a, node_b, port_b), in
\* either order
Joins(l, t) ==
    /\ l.nodes # <<>>
    /\ \/ EndOf(l.nodes[1]) = PortOf(t[1], t[2]) /\ EndOf(l.nodes[2]) = PortOf(t[3], t[4])
       \/ EndOf(l.nodes[1]) = PortOf(t[3], t[4]) /\ EndOf(l.nodes[2]) = PortOf(t[1], t[2])

\* link l has one of the two endpoints of t as one of its endpoints
Occupies(l, t) ==
    /\ l.nodes # <<>>
    /\ {EndOf(l.nodes[1]), EndOf(l.nodes[2])} \cap {PortOf(t[1], t[2]), PortOf(t[3], t[4])} # {}

\* the create_link call that ended in c reached its pre-create check with a
\* link of the refreshed link set joining the proposed endpoints
PairTaken(c) ==
    /\ c.seen # <<>>
    /\ \E l \in c.seen[1].links : Joins(l, c.seen[1].ends)

\* C1: a create_link call whose proposed endpoint pair is, in either order,
\* the endpoint pair of a link of the refreshed link set fails with
\* AlreadyConnected naming such a link, issues no remote create and adds no
\* link to project.links; and a create_link of the reversed pair right after
\* a create_link that succeeded fails in that way.
C1_PairAlreadyConnected ==
    \A k \in LinkCalls :
        LET c == CreateLinkCall(k)
            d == create_link(After(c, NoFail), k[1][3], k[1][4], k[1][1], k[1][2], k[2])
        IN  /\ PairTaken(c) =>
                /\ c.err = "AlreadyConnected"
                /\ \E l \in c.seen[1].links : Joins(l, c.seen[1].ends) /\ l.id = c.detail
                /\ c.calls = <<>>
                /\ c.srv = srv
                /\ c.project.links = c.seen[1].links
            /\ (c.err = "" /\ k[3] = NoFail) =>
                /\ d.err = "AlreadyConnected"
                /\ d.calls = <<>>
                /\ d.project.links = c.project.links

\* C1 witness: the project holds the link that create_link(R1, Eth0, R2, Eth0)
\* made, and create_link(R2, Eth0, R1, Eth0) fails with AlreadyConnected
\* naming it.
C1_Witness ==
    \E l \in project.links :
        /\ l.nodes # <<>>
        /\ l.nodes[1].name = "Eth0" /\ l.nodes[2].name = "Eth0"
        /\ l \in Range(srv.links)
        /\ create_link(Ctx(NoFail), "R2", "Eth0", "R1", "Eth0", 1).err = "AlreadyConnected"
        /\ create_link(Ctx(NoFail), "R2", "Eth0", "R1", "Eth0", 1).detail = l.id

\* C2: a create_link call either of whose proposed endpoints is an endpoint
\* of a link of the refreshed link set is rejected with AlreadyConnected
\* before the remote create.  (Violated: only a link joining both proposed
\* endpoints is looked for.)
C2_EndpointOccupiedRejected ==
    \A k \in LinkCalls :
        LET c == CreateLinkCall(k)
        IN  (c.seen # <<>> /\ \E l \in c.seen[1].links : Occupies(l, c.seen[1].ends))
            => c.err = "AlreadyConnected" /\ c.calls = <<>>

\* the Node and Port objects _search_link is called with
QueryNodes == {[id |-> n, name |-> "R"] : n \in {3, 4}}

QueryPorts ==
    {[name |-> "Eth0", adapter_number |-> ap[1], port_number |-> ap[2]] :
        ap \in {<<0, 0>>, <<0, 1>>, <<1, 0>>}}

Queries == QueryNodes \X QueryPorts \X QueryNodes \X QueryPorts

\* C3: link matching is symmetric: for every link set and every two
\* endpoints, _search_link for (a, b) and for (b, a) return the same link or
\* both return None.
C3_MatchSymmetric ==
    \A q \in Queries, seed \in Seeds :
        _search_link(project.links, q[1], q[2], q[3], q[4], seed)
            = _search_link(project.links, q[3], q[4], q[1], q[2], seed)

\* C3 witness: a link set of two links, one of which is found from both
\* sides, its first endpoint not being the first endpoint asked for.
C3_Witness ==
    /\ Cardinality(project.links) = 2
    /\ \E q \in Queries :
        LET r == _search_link(project.links, q[1], q[2], q[3], q[4], 1)
        IN  /\ r # <<>>
            /\ EndOf(r[1].nodes[1]) # PortOf(q[1], q[2])
            /\ r = _search_link(project.links, q[3], q[4], q[1], q[2], 1)

\* C4: _search_link returns a link exactly when some link of project.links
\* has the two queried endpoints as its endpoints in either order, endpoints
\* being compared by node identifier, adapter number and port number only
\* (not by port name or label, not by link identifier); the link returned is
\* such a link of project.links, and None is returned when there is none.
C4_MatchByTriples ==
    \A q \in Queries, seed \in Seeds :
        LET r == _search_link(project.links, q[1], q[2], q[3], q[4], seed)
        IN  /\ (r # <<>>) <=> (\E l \in project.links : Joins(l, q))
            /\ r # <<>> => r[1] \in project.links /\ Joins(r[1], q)

\* C4 witness: a link is returned whose labels are not the names of the
\* ports asked for, while another link of the set does not match.
C4_Witness ==
    /\ Cardinality(project.links) = 2
    /\ \E q \in Queries :
        LET r == _search_link(project.links, q[1], q[2], q[3], q[4], 1)
        IN  /\ r # <<>>
            /\ r[1].nodes[1].name # q[2].name
            /\ \E l \in project.links : ~Joins(l, q)

\* the links of the refreshed link set that join the endpoints of the call
Joining(c) == {l \in c.seen[1].links : Joins(l, c.seen[1].ends)}

\* C5: a delete_link call both of whose nodes and ports resolve while no link
\* of the refreshed link set joins the two endpoints returns None without
\* raising, issues no remote delete and removes nothing from project.links;
\* and a delete_link with the same arguments right after one that deleted
\* the only joining link is such a call.
C5_DeleteAbsentLinkNoOp ==
    \A k \in LinkCalls :
        LET c == DeleteLinkCall(k)
            d == delete_link(After(c, NoFail), k[1][1], k[1][2], k[1][3], k[1][4], k[2])
        IN  /\ (c.seen # <<>> /\ Joining(c) = {}) =>
                /\ c.err = ""
                /\ c.ret = <<>>
                /\ c.calls = <<>>
                /\ c.srv = srv
                /\ c.project.links = c.seen[1].links
            /\ (c.err = "" /\ c.calls # <<>> /\ Cardinality(Joining(c)) = 1) =>
                /\ d.seen # <<>> /\ Joining(d) = {}
                /\ d.err = ""
                /\ d.calls = <<>>
                /\ d.srv = c.srv
                /\ d.project = c.project

\* C5 witness: the link the server assigned FirstId to is gone from the
\* server and from the project, the nodes are still there, and
\* delete_link(R1, Eth0, R2, Eth0) resolves its endpoints, finds no link and
\* returns without a remote call.
C5_Witness ==
    /\ nextId > FirstId
    /\ \A kind \in Kinds : \A i \in DOMAIN srv[kind] : srv[kind][i].id \in InitialIds
    /\ srv.links = <<>>
    /\ project.links = {}
    /\ project.nodes # {}
    /\ delete_link(Ctx(NoFail), "R1", "Eth0", "R2", "Eth0", 1).seen # <<>>
    /\ delete_link(Ctx(NoFail), "R1", "Eth0", "R2", "Eth0", 1).err = ""
    /\ delete_link(Ctx(NoFail), "R1", "Eth0", "R2", "Eth0", 1).calls = <<>>

\* the (name, identifier) arguments that select by a name or an identifier
Keys(names) == KeyArgs(names) \ {<<None, NoId>>}

\* the server lists an entity of that kind under the name or identifier k
Listed(kind, k) ==
    \E e \in Range(srv[kind]) : IF k[1] # None THEN e.name = k[1] ELSE e.id = k[2]

\* all four names of a link call resolve on the server
LinkResolves(t) ==
    /\ \E n \in Range(srv.nodes) : n.name = t[1]
    /\ \E n \in Range(srv.nodes) : n.name = t[3]
    /\ \E p \in Range(NodePorts) : p.name = t[2]
    /\ \E p \in Range(NodePorts) : p.name = t[4]

\* the call that ended in c raised e and made no create or delete request
Refused(c, e) ==
    /\ c.err = e
    /\ c.calls = <<>>
    /\ c.srv = srv

\* C6: delete_project, delete_template, delete_node, delete_snapshot and
\* delete_drawing called with a name or identifier the server lists no entity
\* under, and create_link, search_link and delete_link called with a node
\* name or a port name that resolves to nothing, raise NotFound and issue no
\* remote create or delete.
C6_NotFoundWithoutRemoteCall ==
    /\ \A k \in Keys(ProjectNames) : ~Listed("projects", k) =>
            Refused(delete_project(Ctx(NoFail), k[1], k[2]), "NotFound")
    /\ \A k \in Keys(TemplateNames) : ~Listed("templates", k) =>
            Refused(delete_template(Ctx(NoFail), k[1], k[2]), "NotFound")
    /\ \A k \in Keys(NodeNames), seed \in Seeds : ~Listed("nodes", k) =>
            Refused(delete_node(Ctx(NoFail), k[1], k[2], seed), "NotFound")
    /\ \A k \in Keys(SnapshotNames) : ~Listed("snapshots", k) =>
            Refused(delete_snapshot(Ctx(NoFail), k[1], k[2]), "NotFound")
    /\ \A k \in Keys(DrawingSvgs) : ~Listed("drawings", k) =>
            Refused(delete_drawing(Ctx(NoFail), k[1], k[2]), "NotFound")
    /\ \A t \in LinkArgs, seed \in Seeds : ~LinkResolves(t) =>
            /\ Refused(create_link(Ctx(NoFail), t[1], t[2], t[3], t[4], seed), "NotFound")
            /\ Refused(search_link(Ctx(NoFail), t[1], t[2], t[3], t[4], seed), "NotFound")
            /\ Refused(delete_link(Ctx(NoFail), t[1], t[2], t[3], t[4], seed), "NotFound")

\* C6 witness: node R1 has been deleted from the server while the project
\* still holds it; deleting it again by name, deleting project lab1 that was
\* never created, and linking R1 all raise NotFound without a remote call.
C6_Witness ==
    /\ \E n \in project.nodes : n.name = "R1"
    /\ ~Listed("nodes", <<"R1", NoId>>)
    /\ ~Listed("projects", <<"lab1", NoId>>)
    /\ Refused(delete_node(Ctx(NoFail), "R1", NoId, 1), "NotFound")
    /\ Refused(delete_project(Ctx(NoFail), "lab1", NoId), "NotFound")
    /\ Refused(create_link(Ctx(NoFail), "R1", "Eth0", "R2", "Eth0", 1), "NotFound")

\* C7: create_project, create_template, create_node, create_snapshot and
\* create_drawing called with a name (svg) under which the server lists an
\* entity of that kind raise AlreadyExists and issue no remote create; and a
\* create_project of the same name right after one that succeeded raises
\* AlreadyExists.
C7_CreateGuardedByName ==
    /\ \A name \in ProjectNames :
        LET c == create_project(Ctx(NoFail), name)
        IN  /\ Listed("projects", <<name, NoId>>) => Refused(c, "AlreadyExists")
            /\ c.err = "" =>
                /\ create_project(After(c, NoFail), name).err = "AlreadyExists"
                /\ create_project(After(c, NoFail), name).calls = <<>>
                /\ create_project(After(c, NoFail), name).srv = c.srv
    /\ \A name \in TemplateNames : Listed("templates", <<name, NoId>>) =>
            Refused(create_template(Ctx(NoFail), name), "AlreadyExists")
    /\ \A name \in NodeNames, tpl \in TemplateNames, seed \in Seeds :
            Listed("nodes", <<name, NoId>>) =>
                Refused(create_node(Ctx(NoFail), name, tpl, seed), "AlreadyExists")
    /\ \A name \in SnapshotNames : Listed("snapshots", <<name, NoId>>) =>
            Refused(create_snapshot(Ctx(NoFail), name), "AlreadyExists")
    /\ \A svg \in DrawingSvgs : Listed("drawings", <<svg, NoId>>) =>
            Refused(create_drawing(Ctx(NoFail), svg), "AlreadyExists")

\* C7 witness: the server lists project lab1 under the identifier it assigned
\* to it, and create_project(lab1) raises AlreadyExists; node R1 is listed
\* while the project's node set is still empty, and create_node(R1) raises
\* AlreadyExists.
C7_Witness ==
    /\ [id |-> FirstId, name |-> "lab1"] \in Range(srv.projects)
    /\ project.nodes = {}
    /\ Refused(create_project(Ctx(NoFail), "lab1"), "AlreadyExists")
    /\ Refused(create_node(Ctx(NoFail), "R1", "T1", 1), "AlreadyExists")

CreateNodeCalls == NodeNames \X TemplateNames \X Seeds \X FuelFor(6)

\* C8: a create_node call that returns returns a node that carries the
\* identifier the server assigned to it, and a node with that identifier is
\* a member of project.nodes.
C8_CreatedNodeInProject ==
    \A k \in CreateNodeCalls :
        LET c == create_node(Ctx(k[4]), k[1], k[2], k[3])
        IN  c.err = "" =>
                /\ c.ret # <<>>
                /\ c.ret[1].id # NoId
                /\ c.ret[1].id = nextId
                /\ c.ret[1] \in Range(c.srv.nodes)
                /\ ~\E n \in Range(srv.nodes) : n.id = c.ret[1].id
                /\ \E n \in c.project.nodes : n.id = c.ret[1].id

\* C8 witness: node R3 is listed under the identifier the server assigned to
\* it and is a member of project.nodes, and the server has assigned no
\* other identifier.
C8_Witness ==
    /\ [id |-> FirstId, name |-> "R3"] \in project.nodes
    /\ [id |-> FirstId, name |-> "R3"] \in Range(srv.nodes)
    /\ Len(srv.nodes) = 3
    /\ nextId = FirstId + 1

DeleteNodeCalls == Keys(NodeNames) \X Seeds \X (FuelFor(5) \cup FuelFor(6))

\* the identifiers of the nodes the call that ended in c deleted on the server
Deleted(c) == {n.id : n \in Range(srv.nodes)} \ {n.id : n \in Range(c.srv.nodes)}

\* C9: after a delete_node call that returns, selected by name or by
\* node_id, exactly one node is gone from the server, it is the node that
\* was selected, and no node with its identifier is a member of
\* project.nodes.
C9_DeletedNodeNotInProject ==
    \A k \in DeleteNodeCalls :
        LET c == delete_node(Ctx(k[3]), k[1][1], k[1][2], k[2])
        IN  c.err = "" =>
                /\ c.calls = << <<"DELETE", "nodes">> >>
                /\ Cardinality(Deleted(c)) = 1
                /\ \A n \in Range(srv.nodes) : n.id \in Deleted(c) =>
                        IF k[1][1] # None THEN n.name = k[1][1] ELSE n.id = k[1][2]
                /\ \A n \in c.project.nodes : n.id \notin Deleted(c)

\* C9 witness: R1 has been deleted: the server and project.nodes hold R2
\* alone; deleting R2 by node_id, which takes the node from a fetched list,
\* and deleting it by name both return and leave project.nodes empty.
C9_Witness ==
    /\ srv.nodes = <<[id |-> 4, name |-> "R2"]>>
    /\ project.nodes = {[id |-> 4, name |-> "R2"]}
    /\ nextId = FirstId
    /\ LET byId == delete_node(Ctx(NoFail), None, 4, 1)
           byName == delete_node(Ctx(NoFail), "R2", NoId, 1)
       IN  /\ byId.err = "" /\ byName.err = ""
           /\ Deleted(byId) = {4} /\ Deleted(byName) = {4}
           /\ byId.project.nodes = {} /\ byName.project.nodes = {}

\* the call that ended in c returned an entity of that name when the server
\* lists one, and None when it lists none
FoundAsListed(c, kind, name) ==
    /\ c.err = ""
    /\ IF \E e \in Range(srv[kind]) : e.name = name
       THEN c.ret # <<>> /\ c.ret[1].name = name /\ c.ret[1] \in Range(srv[kind])
       ELSE c.ret = <<>>

\* a name no entity ever has
Unused == "does-not-exist"

\* C10: search_project, search_template, search_node and search_snapshot
\* called with a name return an entity of that name of the server's listing
\* when the listing has one and None (no error) when it has none, whatever
\* the local collections held before the call.
C10_SearchByNameReflectsServer ==
    \A id \in {NoId, FirstId} :
        /\ \A name \in ProjectNames \cup {Unused} :
                FoundAsListed(search_project(Ctx(NoFail), name, id), "projects", name)
        /\ \A name \in TemplateNames \cup {Unused} :
                FoundAsListed(search_template(Ctx(NoFail), name, id), "templates", name)
        /\ \A name \in NodeNames \cup {Unused}, seed \in Seeds :
                FoundAsListed(search_node(Ctx(NoFail), name, id, seed), "nodes", name)
        /\ \A name \in SnapshotNames \cup {Unused} :
                FoundAsListed(search_snapshot(Ctx(NoFail), name, id), "snapshots", name)

\* C10 witness: the project's node set is stale both ways: it holds R1, which
\* the server no longer lists, and lacks R3, which the server lists;
\* search_node returns None for R1 and the listed node for R3.
C10_Witness ==
    /\ \E n \in project.nodes : n.name = "R1"
    /\ ~\E n \in project.nodes : n.name = "R3"
    /\ search_node(Ctx(NoFail), "R1", NoId, 1).ret = <<>>
    /\ search_node(Ctx(NoFail), "R1", NoId, 1).err = ""
    /\ search_node(Ctx(NoFail), "R3", NoId, 1).ret = <<[id |-> FirstId, name |-> "R3"]>>
    /\ search_template(Ctx(NoFail), Unused, NoId).ret = <<>>
    /\ search_template(Ctx(NoFail), Unused, NoId).err = ""

\* C11: search_project, search_template, search_node, search_snapshot and
\* search_drawing called with neither a name nor an identifier raise
\* InvalidArgument, and so do delete_project, delete_template, delete_node,
\* delete_snapshot and delete_drawing; none of them issues a remote create or
\* delete.
C11_NoKeyIsInvalidArgument ==
    /\ Refused(search_project(Ctx(NoFail), None, NoId), "InvalidArgument")
    /\ Refused(search_template(Ctx(NoFail), None, NoId), "InvalidArgument")
    /\ Refused(search_snapshot(Ctx(NoFail), None, NoId), "InvalidArgument")
    /\ Refused(search_drawing(Ctx(NoFail), None, NoId), "InvalidArgument")
    /\ Refused(delete_project(Ctx(NoFail), None, NoId), "InvalidArgument")
    /\ Refused(delete_template(Ctx(NoFail), None, NoId), "InvalidArgument")
    /\ Refused(delete_snapshot(Ctx(NoFail), None, NoId), "InvalidArgument")
    /\ Refused(delete_drawing(Ctx(NoFail), None, NoId), "InvalidArgument")
    /\ \A seed \in Seeds :
        /\ Refused(search_node(Ctx(NoFail), None, NoId, seed), "InvalidArgument")
        /\ Refused(delete_node(Ctx(NoFail), None, NoId, seed), "InvalidArgument")

\* C11 witness: the server lists a snapshot, a drawing and three nodes, so a
\* delete without keys would have something to delete; delete_snapshot,
\* delete_drawing and delete_node without keys raise InvalidArgument.
C11_Witness ==
    /\ srv.snapshots # <<>> \/ srv.drawings # <<>>
    /\ Len(srv.nodes) >= 2
    /\ project.nodes # {}
    /\ delete_snapshot(Ctx(NoFail), None, NoId).err = "InvalidArgument"
    /\ delete_drawing(Ctx(NoFail), None, NoId).err = "InvalidArgument"
    /\ delete_node(Ctx(NoFail), None, NoId, 1).err = "InvalidArgument"

\* the collections of a Project, in the order refresh_project fetches them
KindOrder == <<"snapshots", "drawings", "nodes", "links">>

\* the refresh_project calls: the four selectors and the point of failure
RefreshCalls == BOOLEAN \X BOOLEAN \X BOOLEAN \X BOOLEAN \X ((0..3) \cup {NoFail})

RefreshCall(k) == refresh_project(Ctx(k[5]), k[1], k[2], k[3], k[4])

\* the selector of a kind in the call k = (links, nodes, snapshots, drawings)
Selected(k, kind) ==
    CASE kind = "links" -> k[1]
      [] kind = "nodes" -> k[2]
      [] kind = "snapshots" -> k[3]
      [] kind = "drawings" -> k[4]

IdsOf(S) == {e.id : e \in S}

\* C12: after a refresh_project call that returns, each selected collection
\* holds exactly the entities of the server's listing of its kind (the same
\* identifiers, each entity as listed); an entity that was only in the local
\* set is gone.
C12_RefreshReplaces ==
    \A k \in RefreshCalls :
        LET c == RefreshCall(k)
        IN  c.err = "" =>
                \A kind \in Range(KindOrder) : Selected(k, kind) =>
                    /\ IdsOf(c.project[kind]) = IdsOf(Range(srv[kind]))
                    /\ c.project[kind] \subseteq Range(srv[kind])
                    /\ \A e \in project[kind] :
                            e \notin Range(srv[kind]) => e \notin c.project[kind]

\* C12 witness: project.nodes holds a node the server no longer lists and
\* lacks one the server lists; a full refresh drops the first and brings the
\* second.
C12_Witness ==
    /\ \E e \in project.nodes : e.id \notin IdsOf(Range(srv.nodes))
    /\ \E e \in Range(srv.nodes) : e.id \notin IdsOf(project.nodes)
    /\ refresh_project(Ctx(NoFail), TRUE, TRUE, TRUE, TRUE).project.nodes = Range(srv.nodes)

\* C13: a refresh_project call that returns has issued one list request for
\* each kind whose selector is true, in the order snapshots, drawings, nodes,
\* links, and none for the others; whether it returns or raises, it issues
\* no request for an unselected kind, no create or delete, and leaves the
\* collection of every unselected kind as it was.
C13_PartialRefresh ==
    \A k \in RefreshCalls :
        LET c == RefreshCall(k)
        IN  /\ c.err = "" => c.gets = SelectSeq(KindOrder, LAMBDA kind : Selected(k, kind))
            /\ \A i \in DOMAIN c.gets : Selected(k, c.gets[i])
            /\ \A i, j \in DOMAIN c.gets : c.gets[i] = c.gets[j] => i = j
            /\ \A kind \in Range(KindOrder) :
                    ~Selected(k, kind) => c.project[kind] = project[kind]
            /\ c.calls = <<>>
            /\ c.srv = srv

\* C13 witness: the links have been refreshed and the nodes have not: the
\* project holds the server's link, and no node although the server lists
\* nodes; a refresh of the links alone makes one request and leaves the
\* node set empty.
C13_Witness ==
    /\ project.links # {}
    /\ project.links = Range(srv.links)
    /\ project.nodes = {}
    /\ srv.nodes # <<>>
    /\ refresh_project(Ctx(NoFail), TRUE, FALSE, FALSE, FALSE).gets = <<"links">>
    /\ refresh_project(Ctx(NoFail), TRUE, FALSE, FALSE, FALSE).project = project

\* C14: of two refresh_project calls in a row with the same selectors, the
\* server not changing in between, the second leaves in each of the four
\* collections the same set of identifiers as the first.
C14_RefreshIdempotent ==
    \A k \in RefreshCalls :
        LET c == RefreshCall(k)
            d == refresh_project(After(c, NoFail), k[1], k[2], k[3], k[4])
        IN  (c.err = "" /\ k[5] = NoFail) =>
                /\ d.err = ""
                /\ d.srv = c.srv
                /\ \A kind \in Range(KindOrder) :
                        IdsOf(d.project[kind]) = IdsOf(c.project[kind])

\* C14 witness: the project is as a full refresh left it, with nodes and a
\* snapshot or a drawing or a link, and a full refresh leaves it so.
C14_Witness ==
    /\ project.nodes # {}
    /\ project.snapshots # {} \/ project.drawings # {} \/ project.links # {}
    /\ \A kind \in Range(KindOrder) : project[kind] = Range(srv[kind])
    /\ refresh_project(Ctx(NoFail), TRUE, TRUE, TRUE, TRUE).project = project

\* the points of failure of a create or delete call that makes n http calls:
\* a list request of its first refresh_project, its last call, or none
FailureAt(n) == {2} \cup FuelFor(n)

\* the create_* and delete_* calls on the project
ProjectCalls ==
    [op : {"create_node"}, a : NodeNames \X TemplateNames, seed : Seeds, fuel : FailureAt(6)]
    \cup [op : {"create_snapshot"}, a : SnapshotNames \X {NoId}, seed : {1}, fuel : FailureAt(6)]
    \cup [op : {"create_drawing"}, a : DrawingSvgs \X {NoId}, seed : {1}, fuel : FailureAt(6)]
    \cup [op : {"create_link"}, a : LinkArgs, seed : Seeds, fuel : FailureAt(15)]
    \cup [op : {"delete_node"}, a : KeyArgs(NodeNames), seed : Seeds,
          fuel : FailureAt(5) \cup FailureAt(6)]
    \cup [op : {"delete_snapshot"}, a : KeyArgs(SnapshotNames), seed : {1}, fuel : FailureAt(6)]
    \cup [op : {"delete_drawing"}, a : KeyArgs(DrawingSvgs), seed : {1}, fuel : FailureAt(6)]
    \cup [op : {"delete_link"}, a : LinkArgs, seed : Seeds, fuel : FailureAt(15)]

\* the context in which the call k ends when made with the given fuel
RunWith(k, fuel) ==
    CASE k.op = "create_node" -> create_node(Ctx(fuel), k.a[1], k.a[2], k.seed)
      [] k.op = "create_snapshot" -> create_snapshot(Ctx(fuel), k.a[1])
      [] k.op = "create_drawing" -> create_drawing(Ctx(fuel), k.a[1])
      [] k.op = "create_link" -> create_link(Ctx(fuel), k.a[1], k.a[2], k.a[3], k.a[4], k.seed)
      [] k.op = "delete_node" -> delete_node(Ctx(fuel), k.a[1], k.a[2], k.seed)
      [] k.op = "delete_snapshot" -> delete_snapshot(Ctx(fuel), k.a[1], k.a[2])
      [] k.op = "delete_drawing" -> delete_drawing(Ctx(fuel), k.a[1], k.a[2])
      [] k.op = "delete_link" -> delete_link(Ctx(fuel), k.a[1], k.a[2], k.a[3], k.a[4], k.seed)

RunCall(k) == RunWith(k, k.fuel)

\* the collection of the project the call k adds to or removes from
KindOf(k) ==
    CASE k.op \in {"create_node", "delete_node"} -> "nodes"
      [] k.op \in {"create_snapshot", "delete_snapshot"} -> "snapshots"
      [] k.op \in {"create_drawing", "delete_drawing"} -> "drawings"
      [] k.op \in {"create_link", "delete_link"} -> "links"

\* the four collections hold what the server lists
InSync == \A kind \in Range(KindOrder) : project[kind] = ToSet(srv[kind])

\* C15 as claimed: a create_* or delete_* call on the project that fails
\* leaves project.nodes, project.links, project.snapshots and
\* project.drawings exactly as they were before the call, also when the
\* server's listing differed from them.  (Violated: the call refreshes the
\* project before it fails.)
C15_FailedCallLeavesCollections ==
    \A k \in ProjectCalls :
        RunCall(k).err # "" => RunCall(k).project = project

\* C15 amended: a create_* or delete_* call on the project that fails leaves
\* each of the four collections either as it was before the call or equal
\* to the server's listing of its kind (as the call's own refresh fetched
\* it); when the collections held what the server lists before the call,
\* they are exactly as they were.
C15_FailedCallOnlyRefreshes ==
    \A k \in ProjectCalls :
        LET c == RunCall(k)
        IN  c.err # "" =>
                /\ \A kind \in Range(KindOrder) :
                        \/ c.project[kind] = project[kind]
                        \/ c.project[kind] = ToSet(srv[kind])
                /\ InSync => c.project = project

\* C15 witness: the project holds a snapshot or a drawing and what the
\* server lists; create_node(R1) fails with AlreadyExists,
\* delete_node(R3) with NotFound and create_drawing with a transport error
\* at its POST, and each leaves the four collections as they were.
C15_Witness ==
    /\ InSync
    /\ project.nodes # {}
    /\ project.snapshots # {} \/ project.drawings # {}
    /\ create_node(Ctx(NoFail), "R1", "T1", 1).err = "AlreadyExists"
    /\ create_node(Ctx(NoFail), "R1", "T1", 1).project = project
    /\ delete_node(Ctx(NoFail), "R3", NoId, 1).err = "NotFound"
    /\ delete_node(Ctx(NoFail), "R3", NoId, 1).project = project
    /\ \E svg \in DrawingSvgs :
        /\ create_drawing(Ctx(5), svg).err = "TransportError"
        /\ create_drawing(Ctx(5), svg).calls # <<>>
        /\ create_drawing(Ctx(5), svg).project = project

\* the identifiers the call that ended in c removed from the server's
\* listing of a kind
Dropped(c, kind) == IdsOf(Range(srv[kind])) \ IdsOf(Range(c.srv[kind]))

\* C16: in create_node, create_link, create_snapshot and create_drawing the
\* entity is in the project's collection only when the remote create has
\* returned, and in delete_node, delete_link, delete_snapshot and
\* delete_drawing the member is missing only when the remote delete has
\* returned: a call whose POST or DELETE raises ends with that error and
\* with the collection as refreshed; a call that made no POST or DELETE
\* added and removed nothing; a call that returns after its POST holds the
\* entity the server stored, and one that returns after its DELETE lacks
\* exactly the entity the server dropped.
C16_LocalChangeAfterRemoteSuccess ==
    \A k \in ProjectCalls :
        LET c == RunCall(k)
            kind == KindOf(k)
        IN  /\ (c.calls # <<>> /\ c.err # "") =>
                /\ c.err = "TransportError"
                /\ c.project[kind] = ToSet(srv[kind])
            /\ c.calls = <<>> =>
                \/ c.project[kind] = project[kind]
                \/ c.project[kind] = ToSet(srv[kind])
            /\ (c.calls # <<>> /\ c.err = "") =>
                \/ /\ c.calls = << <<"POST", kind>> >>
                   /\ c.ret # <<>>
                   /\ c.ret[1] \in Range(c.srv[kind])
                   /\ c.ret[1] \notin Range(srv[kind])
                   /\ c.project[kind] = ToSet(srv[kind]) \cup {c.ret[1]}
                \/ /\ c.calls = << <<"DELETE", kind>> >>
                   /\ Cardinality(Dropped(c, kind)) = 1
                   /\ c.project[kind] = {e \in ToSet(srv[kind]) : e.id \notin Dropped(c, kind)}

\* C16 witness: the project holds what the server lists, among it a
\* snapshot; delete_snapshot whose DELETE raises ends with the transport
\* error and the snapshot still a member, and create_node(R3) whose POST
\* raises ends with the transport error and no R3 in project.nodes.
C16_Witness ==
    /\ InSync
    /\ \E e \in project.snapshots :
        /\ delete_snapshot(Ctx(5), e.name, NoId).calls = << <<"DELETE", "snapshots">> >>
        /\ delete_snapshot(Ctx(5), e.name, NoId).err = "TransportError"
        /\ e \in delete_snapshot(Ctx(5), e.name, NoId).project.snapshots
        /\ delete_snapshot(Ctx(NoFail), e.name, NoId).project.snapshots = project.snapshots \ {e}
    /\ create_node(Ctx(5), "R3", "T1", 1).calls = << <<"POST", "nodes">> >>
    /\ create_node(Ctx(5), "R3", "T1", 1).err = "TransportError"
    /\ create_node(Ctx(5), "R3", "T1", 1).project.nodes = project.nodes

\* the first entity of that name in the server's listing of a kind, or None
FirstListed(kind, name) == FirstOfList(srv[kind], LAMBDA e : e.name = name)

\* the four searches that look the name up in the fetched listing return
\* the first entity of that name in the listing
ListingSearchesFirst ==
    /\ \A name \in ProjectNames :
            search_project(Ctx(NoFail), name, NoId).ret = FirstListed("projects", name)
    /\ \A name \in TemplateNames :
            search_template(Ctx(NoFail), name, NoId).ret = FirstListed("templates", name)
    /\ \A name \in SnapshotNames :
            search_snapshot(Ctx(NoFail), name, NoId).ret = FirstListed("snapshots", name)
    /\ \A svg \in DrawingSvgs :
            search_drawing(Ctx(NoFail), svg, NoId).ret = FirstListed("drawings", svg)

\* C17 as claimed: search_project, search_template, search_node,
\* search_snapshot and search_drawing called with a name return the entity
\* of that name that comes first in the server's listing.  (Violated by
\* search_node, which takes the first in the iteration order of the set
\* project.nodes.)
C17_FirstInListingWins ==
    /\ ListingSearchesFirst
    /\ \A name \in NodeNames, seed \in Seeds :
            search_node(Ctx(NoFail), name, NoId, seed).ret = FirstListed("nodes", name)

\* C17 amended: search_project, search_template, search_snapshot and
\* search_drawing called with a name return the entity of that name that
\* comes first in the server's listing; search_node called with a name
\* returns the listed node of that name that comes first in the iteration
\* order of the set project.nodes, and None when no node has that name.
C17_FirstInFetchedOrIteratedOrder ==
    /\ ListingSearchesFirst
    /\ \A name \in NodeNames, seed \in Seeds :
        LET r == search_node(Ctx(NoFail), name, NoId, seed).ret
            named == {n \in Range(srv.nodes) : n.name = name}
        IN  /\ r = <<>> <=> named = {}
            /\ r # <<>> =>
                /\ r[1] \in named
                /\ \A n \in named : HashKey(r[1].id, seed) <= HashKey(n.id, seed)

\* C17 witness: the server lists two nodes named R1; search_node(R1)
\* returns the first of the listing under one iteration order of the node
\* set and the second under the other.
C17_Witness ==
    /\ Cardinality({n \in Range(srv.nodes) : n.name = "R1"}) = 2
    /\ search_node(Ctx(NoFail), "R1", NoId, 1).ret = FirstListed("nodes", "R1")
    /\ search_node(Ctx(NoFail), "R1", NoId, 6).ret # <<>>
    /\ search_node(Ctx(NoFail), "R1", NoId, 6).ret # FirstListed("nodes", "R1")

\* no two entities of the set share a name
UniqueNames(S) == \A a, b \in S : a.name = b.name => a = b

\* C18: with this client as the only writer and names unique at start,
\* after any sequence of its calls no two projects and no two templates on
\* the server share a name, and no two nodes and no two snapshots of the
\* project share a name, neither on the server nor in project.nodes and
\* project.snapshots; and the server lists no entity twice.
C18_NamesStayUnique ==
    /\ UniqueNames(Range(srv.projects))
    /\ UniqueNames(Range(srv.templates))
    /\ UniqueNames(Range(srv.nodes))
    /\ UniqueNames(Range(srv.snapshots))
    /\ UniqueNames(project.nodes)
    /\ UniqueNames(project.snapshots)
    /\ \A kind \in {"projects", "templates", "nodes", "snapshots"} :
            Cardinality(Range(srv[kind])) = Len(srv[kind])

\* C18 witness: the client has created two nodes and a snapshot, holds them
\* in the project, and creating a node or a snapshot of one of their names
\* again is refused.
C18_Witness ==
    /\ Len(srv.nodes) = 2
    /\ Len(srv.snapshots) = 1
    /\ project.nodes = Range(srv.nodes)
    /\ project.snapshots = Range(srv.snapshots)
    /\ \A n \in project.nodes :
            Refused(create_node(Ctx(NoFail), n.name, "T1", 1), "AlreadyExists")
    /\ \A e \in project.snapshots :
            Refused(create_snapshot(Ctx(NoFail), e.name), "AlreadyExists")

\* the calls that refresh the project with positive selectors only
RefreshingCalls ==
    [op : {"search_node"}, a : KeyArgs(NodeNames), seed : Seeds]
    \cup [op : {"search_snapshot"}, a : KeyArgs(SnapshotNames), seed : {1}]
    \cup [op : {"search_drawing"}, a : KeyArgs(DrawingSvgs), seed : {1}]
    \cup [op : {"search_link"}, a : LinkArgs, seed : Seeds]
    \cup [op : {"nodes_summary", "links_summary"}, a : {<<>>}, seed : Seeds]
    \cup [op : {"get_nodes_inventory"}, a : {<<>>}, seed : {1}]

RefreshingCall(k, fuel) ==
    CASE k.op = "search_node" -> search_node(Ctx(fuel), k.a[1], k.a[2], k.seed)
      [] k.op = "search_snapshot" -> search_snapshot(Ctx(fuel), k.a[1], k.a[2])
      [] k.op = "search_drawing" -> search_drawing(Ctx(fuel), k.a[1], k.a[2])
      [] k.op = "search_link" -> search_link(Ctx(fuel), k.a[1], k.a[2], k.a[3], k.a[4], k.seed)
      [] k.op = "nodes_summary" -> nodes_summary(Ctx(fuel), k.seed)
      [] k.op = "links_summary" -> links_summary(Ctx(fuel), k.seed)
      [] k.op = "get_nodes_inventory" -> get_nodes_inventory(Ctx(fuel))

\* C19: search_node, search_snapshot, search_drawing, search_link,
\* nodes_summary, get_nodes_inventory and links_summary each start with the
\* four list requests snapshots, drawings, nodes, links and, whatever they
\* return or raise afterwards, leave each of the four collections holding
\* the server's listing of its kind; when the list request number f + 1
\* raises, the call ends with that error, the first f collections in that
\* order are replaced and the others are as they were.
C19_RefreshesAllKinds ==
    \A k \in RefreshingCalls :
        /\ LET c == RefreshingCall(k, NoFail)
           IN  /\ Len(c.gets) >= Len(KindOrder)
               /\ SubSeq(c.gets, 1, Len(KindOrder)) = KindOrder
               /\ \A kind \in Range(KindOrder) : c.project[kind] = ToSet(srv[kind])
        /\ \A f \in 0..(Len(KindOrder) - 1) :
            LET c == RefreshingCall(k, f)
            IN  /\ c.err = "TransportError"
                /\ c.gets = SubSeq(KindOrder, 1, f + 1)
                /\ \A i \in 1..f : c.project[KindOrder[i]] = ToSet(srv[KindOrder[i]])
                /\ \A i \in (f + 1)..Len(KindOrder) :
                        c.project[KindOrder[i]] = project[KindOrder[i]]

\* C19 witness: a refresh has failed part-way: the project holds the
\* server's snapshot but none of its nodes; search_snapshot brings the
\* nodes as well, and when its third list request raises the snapshots and
\* drawings are replaced and the node set is still empty.
C19_Witness ==
    /\ project.snapshots # {}
    /\ project.snapshots = Range(srv.snapshots)
    /\ project.nodes = {}
    /\ srv.nodes # <<>>
    /\ \E e \in project.snapshots :
        /\ search_snapshot(Ctx(NoFail), e.name, NoId).project.nodes = Range(srv.nodes)
        /\ search_snapshot(Ctx(2), e.name, NoId).err = "TransportError"
        /\ search_snapshot(Ctx(2), e.name, NoId).project.nodes = {}
        /\ search_snapshot(Ctx(2), e.name, NoId).project.snapshots = Range(srv.snapshots)

====
